---- MODULE Spec2Model ----
(***************************************************************************)
(* A model of the hexagony user/auth API: the users table behind the       *)
(* mariadb repository, the user HTTP handlers that drive it, and the auth  *)
(* use case (Authenticate / generateToken).                                *)
(*                                                                         *)
(* Conventions.                                                            *)
(*  - A Go pointer is a sequence of length <= 1: Nil is <<>>, &x is <<x>>. *)
(*  - A Go string that the code inspects character by character (the       *)
(*    JWT_DURATION value) is a sequence of one-character strings; the      *)
(*    other strings are opaque TLA+ strings.                               *)
(*  - An int64 / time.Duration is a sequence of 8 bytes, least significant *)
(*    first, so that 64-bit wrap-around is computed and not assumed away.  *)
(***************************************************************************)
EXTENDS Integers, Sequences, FiniteSets, TLC

VARIABLES
    users,            \* the rows of the users table (a set of records)
    clientFoundRows,  \* connection flag of the SQL driver, fixed at connect time
    res               \* the last call made to the API and what it returned

vars == <<users, clientFoundRows, res>>

----------------------------------------------------------------------------
(* Bounds and input domains                                                *)

\* Timestamps the clock can return, at the precision the table stores.
MaxTime == 1

Times == 1..MaxTime

ZeroTime == 0

UUIDs == {"u1", "u2"}

NilUUID == "00000000-0000-0000-0000-000000000000"

BadUUID == "not-a-uuid"

Names == {"Ann"}

Emails == {"a@b.com", "c@d.com"}

Passwords == {"correctpw", "wrongpw"}

\* len(password), as go-playground/validator's gte=8 counts it.
PwLen(p) ==
    CASE p = "correctpw" -> 9
      [] p = "wrongpw" -> 7
      [] OTHER -> 0

Nil == <<>>

Ptr(x) == <<x>>

----------------------------------------------------------------------------
(* Errors                                                                  *)

NilErr == "nil"

ErrNoRows == "sql: no rows in result set"

ErrDb == "driver: bad connection"

ErrDuplicate == "Error 1062: Duplicate entry"

ErrResourceNotFound == "domain.ErrResourceNotFound"

ErrAuthFailed == "authentication failed"

ErrEmptyClaim == "authDomain.ErrEmptyClaim"

ErrSign == "authDomain.ErrSign"

ErrInvalidDuration == "time: invalid duration"

ErrMissingUnit == "time: missing unit in duration"

ErrUnknownUnit == "time: unknown unit in duration"

----------------------------------------------------------------------------
(* 64-bit arithmetic on 8 little-endian bytes                              *)

Bytes == 1..8

RECURSIVE ByteOf(_, _)
ByteOf(n, k) == IF k = 1 THEN n % 256 ELSE ByteOf(n \div 256, k - 1)

\* The int64 holding the natural number n (n < 2^31).
W64(n) == [k \in Bytes |-> ByteOf(n, k)]

RECURSIVE ConvSum(_, _, _, _)
ConvSum(a, b, k, i) ==
    IF i > k THEN 0 ELSE a[i] * b[k + 1 - i] + ConvSum(a, b, k, i + 1)

RECURSIVE MulCarry(_, _, _)
MulCarry(a, b, k) ==
    IF k = 1 THEN 0
    ELSE (ConvSum(a, b, k - 1, 1) + MulCarry(a, b, k - 1)) \div 256

\* a * b in int64: the low 64 bits of the product.
Mul64(a, b) == [k \in Bytes |-> (ConvSum(a, b, k, 1) + MulCarry(a, b, k)) % 256]

RECURSIVE AddCarry(_, _, _)
AddCarry(a, b, k) ==
    IF k = 1 THEN 0
    ELSE (a[k - 1] + b[k - 1] + AddCarry(a, b, k - 1)) \div 256

\* a + b in int64.
Add64(a, b) == [k \in Bytes |-> (a[k] + b[k] + AddCarry(a, b, k)) % 256]

MinusOne64 == [k \in Bytes |-> 255]

\* -a in int64 (two's complement).
Neg64(a) == Mul64(a, MinusOne64)

Nanosecond == W64(1)

Microsecond == W64(1000)

Millisecond == W64(1000000)

Second == W64(1000000000)

Minute == Mul64(W64(60), Second)

Hour == Mul64(W64(60), Minute)

----------------------------------------------------------------------------
(* time.ParseDuration on strings over the alphabet [-+0-9a-z] (no '.': the *)
(* fraction branch is outside the inputs drawn).  The numbers in the       *)
(* inputs have at most two digits, so every value stays far below 2^63 and *)
(* the overflow checks of ParseDuration never fire.                        *)

Digits == {"0", "1", "2", "3", "4", "5", "6", "7", "8", "9"}

DigitVal(c) ==
    CASE c = "0" -> 0 [] c = "1" -> 1 [] c = "2" -> 2 [] c = "3" -> 3
      [] c = "4" -> 4 [] c = "5" -> 5 [] c = "6" -> 6 [] c = "7" -> 7
      [] c = "8" -> 8 [] c = "9" -> 9

\* leadingInt: the leading digits of s as a number, and the rest of s.
RECURSIVE LeadingInt(_, _)
LeadingInt(s, v) ==
    IF s # <<>> /\ Head(s) \in Digits
    THEN LeadingInt(Tail(s), v * 10 + DigitVal(Head(s)))
    ELSE [v |-> v, rem |-> s]

\* The number of characters of s before the next digit: the unit's length.
RECURSIVE UnitLen(_)
UnitLen(s) ==
    IF s = <<>> \/ Head(s) \in Digits THEN 0 ELSE 1 + UnitLen(Tail(s))

UnitNames ==
    {<<"n", "s">>, <<"u", "s">>, <<"m", "s">>, <<"s">>, <<"m">>, <<"h">>}

unitMap(u) ==
    CASE u = <<"n", "s">> -> Nanosecond
      [] u = <<"u", "s">> -> Microsecond
      [] u = <<"m", "s">> -> Millisecond
      [] u = <<"s">> -> Second
      [] u = <<"m">> -> Minute
      [] u = <<"h">> -> Hour

\* The loop of ParseDuration: one "<digits><unit>" group per round.
RECURSIVE ParseGroups(_, _)
ParseGroups(s, d) ==
    IF s = <<>> THEN [d |-> d, err |-> NilErr]
    ELSE IF Head(s) \notin Digits THEN [d |-> W64(0), err |-> ErrInvalidDuration]
    ELSE LET li == LeadingInt(s, 0)
             n  == UnitLen(li.rem)
             u  == SubSeq(li.rem, 1, n)
             r  == SubSeq(li.rem, n + 1, Len(li.rem))
         IN  IF n = 0 THEN [d |-> W64(0), err |-> ErrMissingUnit]
             ELSE IF u \notin UnitNames THEN [d |-> W64(0), err |-> ErrUnknownUnit]
             ELSE ParseGroups(r, Add64(d, Mul64(W64(li.v), unitMap(u))))

ParseDuration(str) ==
    LET signed == str # <<>> /\ Head(str) \in {"-", "+"}
        neg    == signed /\ Head(str) = "-"
        s      == IF signed THEN Tail(str) ELSE str
    IN  IF s = <<"0">> THEN [d |-> W64(0), err |-> NilErr]
        ELSE IF s = <<>> THEN [d |-> W64(0), err |-> ErrInvalidDuration]
        ELSE LET p == ParseGroups(s, W64(0))
             IN  IF p.err # NilErr THEN p
                 ELSE IF neg THEN [d |-> Neg64(p.d), err |-> NilErr]
                 ELSE p

----------------------------------------------------------------------------
(* The users table and the SQL driver                                      *)

\* The zero value of domain.User.  Password is a string: "" is <<>>, a bcrypt
\* hash is a triple (see HashPassword).
ZeroUser ==
    [UUID |-> NilUUID, Name |-> "", Email |-> "", Password |-> <<>>,
     CreatedAt |-> ZeroTime, UpdatedAt |-> ZeroTime]

RowsByUUID(table, id) == {r \in table : r.UUID = id}

RowsByEmail(table, email) == {r \in table : r.Email = email}

\* conn.SelectContext(ctx, &users, sqlFindAll): fills the slice with every
\* row; an empty result leaves the slice nil and is no error.
SelectContext(table, dbFail) ==
    IF dbFail THEN [dest |-> {}, err |-> ErrDb]
    ELSE [dest |-> table, err |-> NilErr]

\* conn.GetContext(ctx, &user, sqlFindByID, uuid): scans the one row, or
\* leaves dest untouched and returns sql.ErrNoRows.
GetContext(table, id, dbFail) ==
    IF dbFail THEN [dest |-> ZeroUser, err |-> ErrDb]
    ELSE IF RowsByUUID(table, id) = {} THEN [dest |-> ZeroUser, err |-> ErrNoRows]
    ELSE [dest |-> CHOOSE r \in RowsByUUID(table, id) : TRUE, err |-> NilErr]

\* sqlAdd: INSERT of the six columns.  uuid and email are unique keys.
ExecAdd(table, user, dbFail) ==
    IF dbFail THEN [table |-> table, err |-> ErrDb]
    ELSE IF RowsByUUID(table, user.UUID) # {} \/ RowsByEmail(table, user.Email) # {}
    THEN [table |-> table, err |-> ErrDuplicate]
    ELSE [table |-> table \cup {user}, err |-> NilErr]

\* The row r after sqlUpdate's SET with the four bound values.
Updated(r, user) ==
    [r EXCEPT !.Name = user.Name, !.Email = user.Email,
              !.Password = user.Password, !.UpdatedAt = user.UpdatedAt]

\* sqlUpdate: UPDATE ... SET name, email, password, updated_at WHERE uuid.
\* rows is what result.RowsAffected() reports: the rows matched when the
\* connection sets clientFoundRows, the rows actually changed otherwise.
ExecUpdate(table, id, user, dbFail, foundRows) ==
    LET matched == RowsByUUID(table, id)
        changed == {r \in matched : Updated(r, user) # r}
        clash   == {r \in table : r.UUID # id /\ r.Email = user.Email}
    IN  IF dbFail THEN [table |-> table, rows |-> 0, err |-> ErrDb]
        ELSE IF matched # {} /\ clash # {}
        THEN [table |-> table, rows |-> 0, err |-> ErrDuplicate]
        ELSE [table |-> (table \ matched) \cup {Updated(r, user) : r \in matched},
              rows  |-> IF foundRows THEN Cardinality(matched)
                        ELSE Cardinality(changed),
              err   |-> NilErr]

\* sqlDelete: DELETE ... WHERE uuid.
ExecDelete(table, id, dbFail) ==
    IF dbFail THEN [table |-> table, rows |-> 0, err |-> ErrDb]
    ELSE [table |-> table \ RowsByUUID(table, id),
          rows  |-> Cardinality(RowsByUUID(table, id)),
          err   |-> NilErr]

----------------------------------------------------------------------------
(* mariadbRepository                                                       *)

\* A mutation of IsReportedError: sql.ErrNoRows is no longer let through.
IsReportedError_NoRowsToo(err) == err # NilErr

\* err != nil && err != sql.ErrNoRows
IsReportedError(err) == err # NilErr /\ err # ErrNoRows

FindAll(table, dbFail) ==
    LET q == SelectContext(table, dbFail)
    IN  IF IsReportedError(q.err)
        THEN [users |-> {}, err |-> q.err]
        ELSE [users |-> q.dest, err |-> NilErr]

FindByID(table, id, dbFail) ==
    LET q == GetContext(table, id, dbFail)
    IN  IF IsReportedError(q.err)
        THEN [user |-> Nil, err |-> q.err]
        ELSE [user |-> Ptr(q.dest), err |-> NilErr]

Add(table, user, dbFail) ==
    LET x == ExecAdd(table, user, dbFail)
    IN  [table |-> x.table, err |-> x.err]

Update(table, id, user, dbFail, foundRows) ==
    LET x == ExecUpdate(table, id, user, dbFail, foundRows)
    IN  IF x.err # NilErr THEN [table |-> x.table, err |-> x.err]
        ELSE IF x.rows = 0 THEN [table |-> x.table, err |-> ErrResourceNotFound]
        ELSE [table |-> x.table, err |-> NilErr]

Delete(table, id, dbFail) ==
    LET x == ExecDelete(table, id, dbFail)
    IN  IF x.err # NilErr THEN [table |-> x.table, err |-> x.err]
        ELSE IF x.rows = 0 THEN [table |-> x.table, err |-> ErrResourceNotFound]
        ELSE [table |-> x.table, err |-> NilErr]

----------------------------------------------------------------------------
(* lib/crypto: the bcrypt wrapper                                          *)

\* The cost the Add handler hashes with.
BcryptCost == 10

\* HashPassword(password, cost): a hash is the triple <<"bcrypt", cost, pw>>;
\* the salt is left out, it decides no comparison.
HashPassword(password, cost) ==
    [hash |-> <<"bcrypt", cost, password>>, err |-> NilErr]

\* CheckPasswordHash(password, hash): false on a mismatch and on a malformed
\* hash (the empty string is one).
CheckPasswordHash(password, hash) ==
    /\ Len(hash) = 3
    /\ hash[1] = "bcrypt"
    /\ hash[3] = password

----------------------------------------------------------------------------
(* The auth repository (behind authDomain.AuthRepository)                  *)

AuthRepoAuthenticate(table, email, dbFail) ==
    IF dbFail THEN [user |-> Nil, err |-> ErrDb]
    ELSE IF RowsByEmail(table, email) = {} THEN [user |-> Nil, err |-> ErrNoRows]
    ELSE [user |-> Ptr(CHOOSE r \in RowsByEmail(table, email) : TRUE),
          err  |-> NilErr]

----------------------------------------------------------------------------
(* The auth use case                                                       *)

\* Values of the process environment.  os.Getenv returns "" for an unset
\* variable; JWT_DURATION is a character sequence, "" is <<>>.
JwtSecrets == {"", "s3cret"}

JwtDurations ==
    { <<>>,
      <<"6", "0", "m">>,
      <<"6", "0", "n", "s">>,
      <<"1", "h", "3", "0", "m">>,
      <<"6", "0">>,
      <<"1", "x">>,
      <<"a", "b", "c">> }

DefaultDuration == <<"6", "0", "m">>

\* token.SignedString(signingKey) of jwt.SigningMethodHS256 with a []byte
\* key: HMAC-SHA256 takes a key of any length, the empty one included, and
\* the claims always marshal, so it returns the signed string.  The string
\* is header, claims and a signature standing for HMAC(key, header.claims).
SignedString(claims, signingKey) ==
    [payload |-> <<"HS256", claims, [hmacKey |-> signingKey]>>, err |-> NilErr]

\* A mutation of EmptyClaim: the claim key is not looked at.
EmptyClaim_ValueOnly(claimKey, claimValue) == claimValue = Nil

\* claimKey == "" || claimValue == nil
EmptyClaim(claimKey, claimValue) == claimKey = "" \/ claimValue = Nil

\* generateToken.  expiration is the instant now + window, kept as its
\* offset from the time.Now() read in Authenticate.  steps lists what the
\* call did, in order: "getenv" reads JWT_SECRET, "sign" signs.
generateToken(claimKey, claimValue, expiration, jwtSecret) ==
    IF EmptyClaim(claimKey, claimValue)
    THEN [payload |-> <<>>, err |-> ErrEmptyClaim, steps |-> <<>>]
    ELSE LET signingKey == jwtSecret
             claims ==
                 [Issuer    |-> "Hexagony",
                  Subject   |-> "https://github.com/cyruzin/hexagony",
                  Audience  |-> <<"Clean Architecture">>,
                  ExpiresAt |-> expiration,
                  UUID      |-> claimValue[1].UUID,
                  Name      |-> claimValue[1].Name,
                  Email     |-> claimValue[1].Email]
             signed == SignedString(claims, signingKey)
         IN  IF signed.err # NilErr
             THEN [payload |-> <<>>, err |-> ErrSign, steps |-> <<"getenv", "sign">>]
             ELSE [payload |-> signed.payload, err |-> NilErr,
                   steps |-> <<"getenv", "sign">>]

\* A mutation of OnLookupError: the repository's error is replaced.
OnLookupError_Masked(found) ==
    [token |-> Nil, err |-> ErrAuthFailed, window |-> Nil, steps |-> <<"lookup">>]

\* if err != nil { return nil, err } after authRepo.Authenticate
OnLookupError(found) ==
    [token |-> Nil, err |-> found.err, window |-> Nil, steps |-> <<"lookup">>]

\* A mutation of PasswordMatches: the comparison's result is dropped.
PasswordMatches_Always(password, user) == TRUE

\* bcrypt.CheckPasswordHash(password, user.Password)
PasswordMatches(password, user) == CheckPasswordHash(password, user.Password)

\* A mutation of JwtDurationOrDefault: no default for an unset variable.
JwtDurationOrDefault_NoDefault(jwtDuration) == jwtDuration

\* if jwtDuration == "" { jwtDuration = "60m" }
JwtDurationOrDefault(jwtDuration) ==
    IF jwtDuration = <<>> THEN DefaultDuration ELSE jwtDuration

\* A mutation of OnParseError: the parse error is swallowed.
OnParseError_Swallowed(duration) ==
    [token |-> Nil, err |-> NilErr, window |-> Nil,
     steps |-> <<"lookup", "verify", "parse">>]

\* if err != nil { return nil, err } after time.ParseDuration
OnParseError(duration) ==
    [token |-> Nil, err |-> duration.err, window |-> Nil,
     steps |-> <<"lookup", "verify", "parse">>]

\* expiration := time.Duration(time.Minute * duration), in int64
Expiration(duration) == Mul64(Minute, duration)

\* Authenticate.  token is the *AuthToken returned, window the
\* time.Duration added to time.Now() (Nil when that line is not reached),
\* steps the calls made, in order.
Authenticate(table, email, password, dbFail, jwtDuration, jwtSecret) ==
    LET found == AuthRepoAuthenticate(table, email, dbFail)
    IN  IF found.err # NilErr THEN OnLookupError(found)
        ELSE
        LET user == found.user[1]
        IN  IF ~PasswordMatches(password, user)
            THEN [token |-> Nil, err |-> ErrAuthFailed, window |-> Nil,
                  steps |-> <<"lookup", "verify">>]
            ELSE
            LET customClaims ==
                    Ptr([ZeroUser EXCEPT !.UUID = user.UUID, !.Name = user.Name,
                                         !.Email = user.Email])
                duration == ParseDuration(JwtDurationOrDefault(jwtDuration))
            IN  IF duration.err # NilErr THEN OnParseError(duration)
                ELSE
                LET expiration == Expiration(duration.d)
                    gen == generateToken("user", customClaims, expiration, jwtSecret)
                IN  IF gen.err # NilErr
                    THEN [token |-> Nil, err |-> gen.err,
                          window |-> Ptr(expiration),
                          steps |-> <<"lookup", "verify", "parse">> \o gen.steps]
                    ELSE [token |-> Ptr([Token |-> gen.payload]), err |-> NilErr,
                          window |-> Ptr(expiration),
                          steps |-> <<"lookup", "verify", "parse">> \o gen.steps]

----------------------------------------------------------------------------
(* The user HTTP handlers.  The use case between a handler and the         *)
(* repository passes the call through.  A request body is Nil when it does *)
(* not decode, and a pointer to the decoded payload otherwise.             *)

ErrUUIDParse == "domain.ErrUUIDParse"

ErrDecode == "json: cannot decode"

ErrValidation == "validation failed"

CreateBodies ==
    {Nil} \cup {Ptr([name |-> n, email |-> e, password |-> p]) :
                    n \in Names \cup {""}, e \in Emails \cup {""}, p \in Passwords}

UpdateBodies ==
    {Nil} \cup {Ptr([name |-> n, email |-> e]) :
                    n \in Names \cup {""}, e \in Emails \cup {""}}

\* validate:"required" on name and email, "required,gte=8" on password.
ValidCreate(p) == p.name # "" /\ p.email # "" /\ PwLen(p.password) >= 8

ValidUpdate(p) == p.name # "" /\ p.email # ""

HandlerFindAll(dbFail) ==
    LET r == FindAll(users, dbFail)
    IN  /\ res' = [op |-> "FindAll", dbFail |-> dbFail, err |-> r.err,
                   users |-> r.users,
                   status |-> IF r.err # NilErr THEN 500 ELSE 200]
        /\ UNCHANGED <<users, clientFoundRows>>

HandlerFindByID(id, dbFail) ==
    /\ IF id = BadUUID
       THEN res' = [op |-> "FindByID", uuid |-> id, dbFail |-> dbFail,
                    err |-> ErrUUIDParse, user |-> Nil, status |-> 500]
       ELSE LET r == FindByID(users, id, dbFail)
            IN  res' = [op |-> "FindByID", uuid |-> id, dbFail |-> dbFail,
                        err |-> r.err, user |-> r.user,
                        status |-> IF r.err # NilErr THEN 422 ELSE 200]
    /\ UNCHANGED <<users, clientFoundRows>>

HandlerAdd(body, id, createdAt, updatedAt, dbFail) ==
    LET done(err, status) ==
            [op |-> "Add", uuid |-> id, dbFail |-> dbFail, err |-> err,
             status |-> status]
    IN  /\ UNCHANGED clientFoundRows
        /\ IF body = Nil
           THEN res' = done(ErrDecode, 500) /\ UNCHANGED users
           ELSE IF ~ValidCreate(body[1])
           THEN res' = done(ErrValidation, 400) /\ UNCHANGED users
           ELSE LET hashPass == HashPassword(body[1].password, BcryptCost)
                    user == [UUID |-> id, Name |-> body[1].name,
                             Email |-> body[1].email, Password |-> hashPass.hash,
                             CreatedAt |-> createdAt, UpdatedAt |-> updatedAt]
                    r == Add(users, user, dbFail)
                IN  IF hashPass.err # NilErr
                    THEN res' = done(hashPass.err, 422) /\ UNCHANGED users
                    ELSE /\ res' = done(r.err, IF r.err # NilErr THEN 422 ELSE 201)
                         /\ users' = r.table

HandlerUpdate(id, body, now, dbFail) ==
    LET done(err, status) ==
            [op |-> "Update", uuid |-> id, dbFail |-> dbFail, err |-> err,
             status |-> status]
    IN  /\ UNCHANGED clientFoundRows
        /\ IF id = BadUUID
           THEN res' = done(ErrUUIDParse, 500) /\ UNCHANGED users
           ELSE IF body = Nil
           THEN res' = done(ErrDecode, 422) /\ UNCHANGED users
           ELSE IF ~ValidUpdate(body[1])
           THEN res' = done(ErrValidation, 400) /\ UNCHANGED users
           ELSE LET user == [ZeroUser EXCEPT !.Name = body[1].name,
                                             !.Email = body[1].email,
                                             !.UpdatedAt = now]
                    r == Update(users, id, user, dbFail, clientFoundRows)
                IN  /\ res' = done(r.err, IF r.err # NilErr THEN 422 ELSE 200)
                    /\ users' = r.table

HandlerDelete(id, dbFail) ==
    LET done(err, status) ==
            [op |-> "Delete", uuid |-> id, dbFail |-> dbFail, err |-> err,
             status |-> status]
    IN  /\ UNCHANGED clientFoundRows
        /\ IF id = BadUUID
           THEN res' = done(ErrUUIDParse, 500) /\ UNCHANGED users
           ELSE LET r == Delete(users, id, dbFail)
                IN  /\ res' = done(r.err, IF r.err # NilErr THEN 422 ELSE 200)
                    /\ users' = r.table

\* A call of the auth use case.
CallAuthenticate(email, password, dbFail, jwtDuration, jwtSecret) ==
    LET r == Authenticate(users, email, password, dbFail, jwtDuration, jwtSecret)
    IN  /\ res' = [op |-> "Authenticate", email |-> email, password |-> password,
                   dbFail |-> dbFail, jwtDuration |-> jwtDuration,
                   jwtSecret |-> jwtSecret, token |-> r.token, err |-> r.err,
                   window |-> r.window, steps |-> r.steps]
        /\ UNCHANGED <<users, clientFoundRows>>

----------------------------------------------------------------------------
(* The API as a state machine                                              *)

Init ==
    /\ users = {}
    /\ clientFoundRows \in BOOLEAN
    /\ res = [op |-> "none"]

Next ==
    \/ \E dbFail \in BOOLEAN : HandlerFindAll(dbFail)
    \/ \E id \in UUIDs \cup {BadUUID}, dbFail \in BOOLEAN : HandlerFindByID(id, dbFail)
    \/ \E body \in CreateBodies, id \in UUIDs, c \in Times, dbFail \in BOOLEAN :
          \E u \in {t \in Times : c <= t} : HandlerAdd(body, id, c, u, dbFail)
    \/ \E id \in UUIDs \cup {BadUUID}, body \in UpdateBodies, now \in Times,
          dbFail \in BOOLEAN :
            HandlerUpdate(id, body, now, dbFail)
    \/ \E id \in UUIDs \cup {BadUUID}, dbFail \in BOOLEAN : HandlerDelete(id, dbFail)
    \/ \E email \in Emails, password \in Passwords, dbFail \in BOOLEAN,
          jwtDuration \in JwtDurations, jwtSecret \in JwtSecrets :
            CallAuthenticate(email, password, dbFail, jwtDuration, jwtSecret)

Spec == Init /\ [][Next]_vars

----------------------------------------------------------------------------
(* Single calls on a given table.  Authenticate, generateToken, FindAll    *)
(* and FindByID change no state, so each is also checked as a function of  *)
(* the table it finds: Init draws the table, the action makes one call.    *)

\* What the password column can hold: the hash Add stores, or the "" that
\* Update stores.
StoredPasswords ==
    {HashPassword(p, BcryptCost).hash : p \in {q \in Passwords : PwLen(q) >= 8}}
        \cup {<<>>}

\* A row that still holds its hash has not been updated since Add wrote it,
\* with CreatedAt read before UpdatedAt.
Rows ==
    {r \in [UUID : UUIDs, Name : Names, Email : Emails,
            Password : StoredPasswords, CreatedAt : Times, UpdatedAt : Times] :
        r.Password # <<>> => r.CreatedAt <= r.UpdatedAt}

\* The tables: at most one row per uuid and per email.
Tables ==
    UNION { { {f[id] : id \in S} :
                f \in {g \in [S -> Rows] :
                         /\ \A id \in S : g[id].UUID = id
                         /\ \A i, j \in S : i # j => g[i].Email # g[j].Email} } :
            S \in SUBSET UUIDs }

InitTable ==
    /\ users \in Tables
    /\ clientFoundRows \in BOOLEAN
    /\ res = [op |-> "none"]

NextAuth ==
    \E email \in Emails, password \in Passwords, dbFail \in BOOLEAN,
       jwtDuration \in JwtDurations, jwtSecret \in JwtSecrets :
        /\ res.op = "none"
        /\ CallAuthenticate(email, password, dbFail, jwtDuration, jwtSecret)

SpecAuth == InitTable /\ [][NextAuth]_vars

NextFind ==
    \/ \E dbFail \in BOOLEAN :
        res.op = "none" /\ HandlerFindAll(dbFail)
    \/ \E id \in UUIDs \cup {BadUUID}, dbFail \in BOOLEAN :
        res.op = "none" /\ HandlerFindByID(id, dbFail)

SpecFind == InitTable /\ [][NextFind]_vars

\* A direct call of generateToken, as a test inside the package makes it.
CallGenerateToken(claimKey, claimValue, expiration, jwtSecret) ==
    LET r == generateToken(claimKey, claimValue, expiration, jwtSecret)
    IN  /\ res' = [op |-> "generateToken", claimKey |-> claimKey,
                   claimValue |-> claimValue, expiration |-> expiration,
                   jwtSecret |-> jwtSecret, payload |-> r.payload,
                   err |-> r.err, steps |-> r.steps]
        /\ UNCHANGED <<users, clientFoundRows>>

ClaimKeys == {"", "user"}

ClaimValues ==
    {Nil} \cup {Ptr([ZeroUser EXCEPT !.UUID = id, !.Name = n, !.Email = e]) :
                    id \in UUIDs, n \in Names, e \in Emails}

Expirations ==
    {Expiration(ParseDuration(d).d) :
        d \in {x \in JwtDurations \cup {DefaultDuration} :
                 ParseDuration(x).err = NilErr}}

InitToken ==
    /\ users = {}
    /\ clientFoundRows \in BOOLEAN
    /\ res = [op |-> "none"]

NextToken ==
    \E claimKey \in ClaimKeys, claimValue \in ClaimValues,
       expiration \in Expirations, jwtSecret \in JwtSecrets :
        /\ res.op = "none"
        /\ CallGenerateToken(claimKey, claimValue, expiration, jwtSecret)

SpecToken == InitToken /\ [][NextToken]_vars

\* Every table the handlers reach is one of Tables.
TablesCoverReachable == users \in Tables

----------------------------------------------------------------------------
(* Properties                                                              *)

IsAuth == res.op = "Authenticate"

\* The lookup of the last Authenticate call found a credential record.
LookupOk == ~res.dbFail /\ RowsByEmail(users, res.email) # {}

\* The password hash stored for the identifier of the last call.
StoredHash == (CHOOSE r \in RowsByEmail(users, res.email) : TRUE).Password

PasswordOk == CheckPasswordHash(res.password, StoredHash)

\* JWT_DURATION is unset (or empty), or parses as a duration.
LifetimeOk == res.jwtDuration = <<>> \/ ParseDuration(res.jwtDuration).err = NilErr

SixtyMinutes == Mul64(W64(60), Minute)

\* The call returned a token holding a non-empty signed string, and no error.
ReturnedToken ==
    /\ res.err = NilErr
    /\ res.token # Nil
    /\ res.token[1].Token # <<>>

\* C1: when the lookup succeeds and the supplied password does not match the
\* stored hash, Authenticate returns "authentication failed" and a nil token,
\* and neither reads the signing secret nor signs.
C1_WrongPasswordFails ==
    (IsAuth /\ LookupOk /\ ~PasswordOk) =>
        /\ res.err = ErrAuthFailed
        /\ res.token = Nil
        /\ res.steps = <<"lookup", "verify">>

\* A wrong password against a stored bcrypt hash was refused.
C1_Witness ==
    /\ IsAuth /\ LookupOk /\ ~PasswordOk
    /\ res.password = "wrongpw"
    /\ StoredHash = HashPassword("correctpw", BcryptCost).hash
    /\ res.err = ErrAuthFailed

\* C2, as stated: for every valid identifier with its correct password,
\* Authenticate returns a non-empty token and no error, whatever JWT_SECRET
\* and JWT_DURATION hold.
C2_Original == (IsAuth /\ LookupOk /\ PasswordOk) => ReturnedToken

\* C2, amended: for every valid identifier with its correct password,
\* Authenticate returns a non-empty token and no error whatever JWT_SECRET
\* holds, provided JWT_DURATION is unset or parses as a duration; when it is
\* set and does not parse, Authenticate returns the parse error and no token.
C2_Amended ==
    (IsAuth /\ LookupOk /\ PasswordOk) =>
        /\ LifetimeOk => ReturnedToken
        /\ ~LifetimeOk =>
              /\ res.err = ParseDuration(res.jwtDuration).err
              /\ res.token = Nil

\* Correct credentials, JWT_DURATION unset and JWT_SECRET set: a token.
C2_Witness ==
    /\ IsAuth /\ LookupOk /\ PasswordOk
    /\ res.jwtDuration = <<>>
    /\ res.jwtSecret = "s3cret"
    /\ ReturnedToken

\* C3: with JWT_DURATION unset, the window Authenticate adds to the issuance
\* time is 60 minutes.
C3_DefaultWindow ==
    (IsAuth /\ res.jwtDuration = <<>> /\ res.window # Nil) =>
        res.window[1] = SixtyMinutes

\* C4: when the repository's lookup returns an error, Authenticate returns
\* that error unchanged and a nil token, and makes no further call (no
\* password verification, no token issuance).
C4_LookupErrorPropagates ==
    (IsAuth /\ ~LookupOk) =>
        /\ res.err = AuthRepoAuthenticate(users, res.email, res.dbFail).err
        /\ res.err \in {ErrNoRows, ErrDb}
        /\ res.token = Nil
        /\ res.steps = <<"lookup">>

\* An identifier absent from the table got the not-found error.
C4_Witness ==
    /\ IsAuth
    /\ ~res.dbFail
    /\ RowsByEmail(users, res.email) = {}
    /\ res.err = ErrNoRows
    /\ res.token = Nil

\* The signing step of the last call succeeds.
SignOk == SignedString(Nil, res.jwtSecret).err = NilErr

\* C5: Authenticate ends with a token and no error, or with an error and no
\* token; it returns a token exactly when the lookup succeeded, the password
\* matched, the lifetime parsed and the signing succeeded, and then it has
\* gone through the steps in that order.
C5_TokenXorError ==
    IsAuth =>
        /\ \/ res.token # Nil /\ res.err = NilErr
           \/ res.token = Nil /\ res.err # NilErr
        /\ res.token # Nil <=>
              (LookupOk /\ PasswordOk /\ LifetimeOk /\ SignOk)
        /\ res.token # Nil =>
              res.steps = <<"lookup", "verify", "parse", "getenv", "sign">>

\* A call that failed at the parse step, after a matching password.
C5_Witness ==
    /\ IsAuth /\ LookupOk /\ PasswordOk /\ ~LifetimeOk
    /\ res.token = Nil
    /\ res.err = ErrMissingUnit

\* C6: generateToken with an empty claim key or a nil identity returns
\* ErrEmptyClaim and the empty string, before JWT_SECRET is read or
\* anything is signed.
C6_EmptyClaimRejected ==
    (res.op = "generateToken" /\ (res.claimKey = "" \/ res.claimValue = Nil)) =>
        /\ res.err = ErrEmptyClaim
        /\ res.payload = <<>>
        /\ res.steps = <<>>

\* An empty claim key with an identity present was rejected.
C6_Witness ==
    /\ res.op = "generateToken"
    /\ res.claimKey = ""
    /\ res.claimValue # Nil
    /\ res.err = ErrEmptyClaim

\* C7: with JWT_SECRET absent, a call that reaches the signing step fails
\* there with ErrSign, and Authenticate returns an error and no token.
C7_AbsentSecretFailsToSign ==
    (IsAuth /\ res.jwtSecret = "" /\ LookupOk /\ PasswordOk /\ LifetimeOk) =>
        /\ res.err = ErrSign
        /\ res.token = Nil

\* C8: FindByID for a uuid with no row returns a pointer to the zero user and
\* a nil error; FindAll on an empty table returns a nil error; the only
\* errors either returns are the driver's other than sql.ErrNoRows.
C8_NoRowsSwallowed ==
    /\ (res.op = "FindByID" /\ res.uuid # BadUUID /\ ~res.dbFail
          /\ RowsByUUID(users, res.uuid) = {}) =>
            (res.err = NilErr /\ res.user = Ptr(ZeroUser))
    /\ (res.op = "FindAll" /\ ~res.dbFail /\ users = {}) =>
            (res.err = NilErr /\ res.users = {})
    /\ (res.op \in {"FindByID", "FindAll"} /\ res.err \notin {NilErr, ErrUUIDParse}) =>
            (res.dbFail /\ res.err = ErrDb)

\* FindByID of an absent uuid returned the zero user and no error.
C8_Witness ==
    /\ res.op = "FindByID"
    /\ res.uuid \in UUIDs
    /\ ~res.dbFail
    /\ RowsByUUID(users, res.uuid) = {}
    /\ users # {}
    /\ res.err = NilErr
    /\ res.user = Ptr(ZeroUser)

\* The last call reached the repository and its statement was executed.
Executed(r) ==
    r.err \notin {ErrUUIDParse, ErrDecode, ErrValidation, ErrDb, ErrDuplicate}

\* C9: an Update or a Delete whose statement was executed returns
\* ErrResourceNotFound exactly when no stored user has the uuid, and then
\* leaves the table as it was.
C9_NotFoundIffAbsent ==
    [][(res'.op \in {"Update", "Delete"} /\ Executed(res')) =>
          /\ (res'.err = ErrResourceNotFound) <=> (RowsByUUID(users, res'.uuid) = {})
          /\ (res'.err = ErrResourceNotFound) => (users' = users)]_vars

\* C10: a successful Update through the handler leaves the stored password
\* hash of that user as it was.
C10_UpdateKeepsPassword ==
    [][(res'.op = "Update" /\ res'.err = NilErr) =>
          \A r \in RowsByUUID(users, res'.uuid) :
              \E q \in RowsByUUID(users', res'.uuid) : q.Password = r.Password]_vars

====
